---- MODULE Spec2Model ----
(***************************************************************************)
(* Lease / waitlist / expiry engine of loadzone (src/app.py).              *)
(*                                                                         *)
(* The store is MySQL/InnoDB reached through SQLAlchemy sessions.  A       *)
(* handler is a sequence of steps of one worker; a step boundary is put    *)
(* wherever another worker can act between two statements and change what  *)
(* the handler observes:                                                   *)
(*   - SELECT ... FOR UPDATE, UPDATE and DELETE take the row lock and      *)
(*     block while another transaction holds it; they read the latest      *)
(*     committed rows.  Locks are released at commit / rollback.           *)
(*   - a plain SELECT takes no lock.  Under InnoDB's default isolation     *)
(*     (REPEATABLE READ; create_engine sets no isolation_level) the first  *)
(*     plain SELECT of a transaction fixes the snapshot that every later   *)
(*     plain SELECT of that transaction reads, together with the           *)
(*     transaction's own writes.                                           *)
(*   - the queue table has no index on vm_id / email, so a locking read    *)
(*     or a write that selects by vm_id locks every queue row of that vm:  *)
(*     one lock per vm (qlock).                                            *)
(* Time is counted in hours.                                               *)
(***************************************************************************)
EXTENDS Integers, Sequences, FiniteSets, TLC

\* ---------------------------------------------------------------- bounds
\* the clock stops at MaxTime; the bookings table takes MaxHist rows
MaxTime == 1
MaxHist == 2
\* where history ages, the clock stops at MaxAge
MaxAge == 3

\* ------------------------------------------------------ program constants
\* if len(existing_emails) >= 10
QueueCap == 10
\* hours = min(max(int(...), 1), 24)
MinHours == 1
MaxHours == 24
\* notify_time = expires - timedelta(hours=1)
NotifyLead == 1
\* cutoff = now - timedelta(hours=1)
HistoryKeep == 1
\* def db_retry(max_retries=5, ...)
MaxRetries == 5

\* ------------------------------------------------------------- universes
\* requesters (the user_email cookie), resources, workers, hours of a request
Users == {1, 2}
VMs == {1, 2}
Procs == {1, 2}
HoursIn == {0, 1}

\* the resource ids that requests carry, unless a specification names more
VmsIn == {1}

\* NULL in booked_by / user_email, in vm_id, in expires_at / end; a lock nobody holds;
\* an expires_at text that datetime.fromisoformat and strptime both reject
NoUser == 0
NoVm == 0
NoProc == 0
NoTime == -1
BadTime == -2

VARIABLES
    now,        \* wall clock, datetime.now()
    vms,        \* table vms:      vm id -> row
    vmlock,     \* row lock of each vms row (FOR UPDATE / UPDATE / DELETE)
    queue,      \* table queue:    set of rows [id, vm_id, email, position]
    qlock,      \* lock on the queue rows of each vm
    users,      \* table users:    set of emails
    bookings,   \* table bookings: sequence of history rows, in id order
    bseq,       \* autoincrement counter of bookings.id
    jobs,       \* scheduler's pending notify_<vm> / release_<vm> date jobs
    db_lock,    \* threading.Lock guarding schedule_jobs
    proc        \* the workers: handler, position in it, and its locals

vars == <<now, vms, vmlock, queue, qlock, users, bookings, bseq, jobs, db_lock, proc>>

\* ------------------------------------------------------------ rows, views
NoRow == [exists |-> FALSE, booked_by |-> NoUser, expires_at |-> NoTime, lease |-> 0]

FreeRow == [exists |-> TRUE, booked_by |-> NoUser, expires_at |-> NoTime, lease |-> 0]

NoView == [exists |-> FALSE, booked_by |-> NoUser, expires_at |-> NoTime,
           first |-> NoUser, lease |-> 0]

Idle == [op |-> "none", pc |-> "idle", user |-> NoUser, vm |-> NoVm, hours |-> 0,
         exp |-> NoTime, t |-> NoTime, first |-> NoUser, rec |-> FALSE,
         snap |-> {}, expired |-> <<>>, sj |-> [v \in VMs |-> NoView],
         res |-> "none", pos |-> 0, lease |-> 0, keep |-> <<>>,
         popped |-> {}, out |-> <<>>, rows |-> <<>>, attempt |-> 0, calls |-> 0]

\* a clamp that has no lower limit
ClampAbove(h) == IF h > MaxHours THEN MaxHours ELSE h

\* hours = min(max(int(req.get('hours', 24)), 1), 24)
Clamp(h) == IF h < MinHours THEN MinHours ELSE IF h > MaxHours THEN MaxHours ELSE h

\* _parse_iso: None for a null or unparsable value, the datetime otherwise
ParseIso(s) == IF s = NoTime \/ s = BadTime THEN NoTime ELSE s

\* a renewal that counts from the current time
RenewFromNow(e, t) == t

\* datetime.fromisoformat(row['expires_at']) if row['expires_at'] else now; except: now
RenewBase(e, t) == IF e = NoTime \/ e = BadTime THEN t ELSE e

\* new_expires = expires_old + timedelta(hours=hours)
RenewExpiry(e, t, h) == RenewBase(e, t) + h

\* ------------------------------------------------------------ queue reads
QRows(tbl, v) == {r \in tbl : r.vm_id = v}

\* rows ordered by position (ties, which a dense queue never has, by id)
Before(r1, r2) == r1.position < r2.position \/ (r1.position = r2.position /\ r1.id < r2.id)

RECURSIVE OrderByPosition(_)
OrderByPosition(rows) ==
    IF rows = {} THEN <<>>
    ELSE LET r == CHOOSE x \in rows : \A y \in rows \ {x} : Before(x, y)
         IN  <<r>> \o OrderByPosition(rows \ {r})

\* select(queue.c.email).where(vm_id == v).order_by(position)
QueueEmails(tbl, v) ==
    LET s == OrderByPosition(QRows(tbl, v)) IN [i \in 1..Len(s) |-> s[i].email]

FirstOf(s) == IF Len(s) = 0 THEN NoUser ELSE s[1]

\* for pos, r in enumerate(remaining, start=1): update(queue).where(id == r.id).values(position=pos)
\* remaining: the ordered rows the handler read; tbl: the rows the updates act on
Renumber(tbl, remaining) ==
    {IF \E i \in 1..Len(remaining) : remaining[i].id = r.id
        THEN [r EXCEPT !.position = CHOOSE i \in 1..Len(remaining) : remaining[i].id = r.id]
        ELSE r : r \in tbl}

\* autoincrement: an id no row carries and no worker still refers to
FreshQid ==
    LET used == {r.id : r \in queue} \cup UNION {{r.id : r \in proc[p].snap} : p \in Procs}
    IN  CHOOSE i \in 1..(Cardinality(used) + 1) : i \notin used

\* a store whose row locks exclude no one
RowLockIgnored(p, v) == TRUE

\* ------------------------------------------------------------- row locks
\* a locking statement of worker p on row v proceeds when no other transaction holds the lock
RowLockFree(p, v) == vmlock[v] \in {NoProc, p}

QueueLockFree(p, v) == qlock[v] \in {NoProc, p}

\* ---------------------------------------------------------------- history
Record(u, v, s, e, a) ==
    [id |-> bseq + 1, user_email |-> u, vm_id |-> v, start |-> s, end |-> e, action |-> a]

\* insert(bookings).values(...)
AddBooking(u, v, s, e, a) ==
    /\ bseq < MaxHist
    /\ bookings' = Append(bookings, Record(u, v, s, e, a))
    /\ bseq' = bseq + 1

\* ------------------------------------------------------------------ Init
\* the store whose vms table holds the rows `rows`, and nothing else yet
Fresh(rows) ==
    /\ now = 0
    /\ vms = rows
    /\ vmlock = [v \in VMs |-> NoProc]
    /\ queue = {}
    /\ qlock = [v \in VMs |-> NoProc]
    /\ users = {}
    /\ bookings = <<>>
    /\ bseq = 0
    /\ jobs = {}
    /\ db_lock = NoProc
    /\ proc = [p \in Procs |-> Idle]

\* metadata.create_all(engine): empty tables; no date job; every worker free
Init == Fresh([v \in VMs |-> NoRow])

\* every resource has been added (add_vm) and nothing else has happened
AddedInit == Fresh([v \in VMs |-> IF v \in VmsIn THEN FreeRow ELSE NoRow])

\* ---------------------------------------------------------------- worker
Set(p, r) == proc' = [proc EXCEPT ![p] = r]

\* a request (or a job of the scheduler) taken up by a free worker, with its inputs
Begin(op, u, v) == [Idle EXCEPT !.op = op, !.user = u, !.vm = v]

\* the handler of call c returns response r (and a queue position n)
Resp(c, r) == [Idle EXCEPT !.op = c.op, !.user = c.user, !.vm = c.vm, !.lease = c.lease,
                           !.pc = "ret", !.res = r]

RespPos(c, r, n) == [Resp(c, r) EXCEPT !.pos = n]

\* the response has been delivered, the worker is free again
Return(p) ==
    /\ proc[p].pc = "ret"
    /\ Set(p, Idle)
    /\ UNCHANGED <<now, vms, vmlock, queue, qlock, users, bookings, bseq, jobs, db_lock>>

\* ------------------------------------------------------------------ book
\* hours = min(max(int(hours), 1), 24); with session.begin():
\* row = select(vms).where(id == vm_id).with_for_update(); 404 / 400, else
\* expires = datetime.now() + timedelta(hours=hours).  H: the hours and V: the resource
\* ids that requests carry
BookOn(p, H, V) ==
    \E u \in Users, v \in V, h \in H :
        LET c == Begin("book", u, v)
            row == vms[v]
        IN  /\ proc[p].pc = "idle"
            /\ RowLockFree(p, v)
            /\ IF ~row.exists THEN /\ Set(p, Resp(c, "not_found"))
                                   /\ UNCHANGED vmlock
               ELSE IF row.booked_by # NoUser THEN /\ Set(p, Resp(c, "already_leased"))
                                                   /\ UNCHANGED vmlock
               ELSE /\ bseq < MaxHist
                    /\ vmlock' = [vmlock EXCEPT ![v] = p]
                    /\ Set(p, [c EXCEPT !.pc = "book_commit", !.hours = h,
                                        !.exp = now + Clamp(h)])
            /\ UNCHANGED <<now, vms, queue, qlock, users, bookings, bseq, jobs, db_lock>>

BookReq(p, H) == BookOn(p, H, VmsIn)

BookLock(p) == BookReq(p, HoursIn)

\* update(vms).values(booked_by, expires_at); insert(bookings) 'book'; commit
BookCommit(p) ==
    LET v == proc[p].vm
        u == proc[p].user
    IN  /\ proc[p].pc = "book_commit"
        /\ vms' = [vms EXCEPT ![v] = [exists |-> TRUE, booked_by |-> u,
                                      expires_at |-> proc[p].exp, lease |-> bseq + 1]]
        /\ AddBooking(u, v, now, proc[p].exp, "book")
        /\ vmlock' = [vmlock EXCEPT ![v] = NoProc]
        /\ Set(p, [proc[p] EXCEPT !.pc = "sched_begin", !.hours = 0, !.exp = NoTime])
        /\ UNCHANGED <<now, queue, qlock, users, jobs, db_lock>>

\* ----------------------------------------------------------------- renew
\* hours clamped as in book_vm; row = select(vms).with_for_update(); 404 / 403, else
\* expires_old = parsed expires_at (now if it does not parse);
\* new_expires = expires_old + timedelta(hours=hours)
RenewOn(p, H, V) ==
    \E u \in Users, v \in V, h \in H :
        LET c == Begin("renew", u, v)
            row == vms[v]
        IN  /\ proc[p].pc = "idle"
            /\ RowLockFree(p, v)
            /\ IF ~row.exists THEN /\ Set(p, Resp(c, "not_found"))
                                   /\ UNCHANGED vmlock
               ELSE IF row.booked_by # u THEN /\ Set(p, Resp(c, "not_owner"))
                                              /\ UNCHANGED vmlock
               ELSE /\ bseq < MaxHist
                    /\ vmlock' = [vmlock EXCEPT ![v] = p]
                    /\ Set(p, [c EXCEPT !.pc = "renew_commit", !.hours = h,
                                        !.exp = RenewExpiry(row.expires_at, now, Clamp(h))])
            /\ UNCHANGED <<now, vms, queue, qlock, users, bookings, bseq, jobs, db_lock>>

RenewReq(p, H) == RenewOn(p, H, VmsIn)

RenewLock(p) == RenewReq(p, HoursIn)

\* update(vms).values(expires_at=new_expires); insert(bookings) 'renew'; commit
RenewCommit(p) ==
    LET v == proc[p].vm
    IN  /\ proc[p].pc = "renew_commit"
        /\ vms' = [vms EXCEPT ![v].expires_at = proc[p].exp]
        /\ AddBooking(proc[p].user, v, now, proc[p].exp, "renew")
        /\ vmlock' = [vmlock EXCEPT ![v] = NoProc]
        /\ Set(p, [proc[p] EXCEPT !.pc = "sched_begin", !.hours = 0, !.exp = NoTime])
        /\ UNCHANGED <<now, queue, qlock, users, jobs, db_lock>>

\* ---------------------------------------------------------------- cancel
CancelOn(p, V) ==
    \E u \in Users, v \in V :
        LET c == Begin("cancel", u, v)
            row == vms[v]
        IN  /\ proc[p].pc = "idle"
            /\ RowLockFree(p, v)
            /\ IF ~row.exists THEN /\ Set(p, Resp(c, "not_found"))
                                   /\ UNCHANGED vmlock
               ELSE IF row.booked_by # u THEN /\ Set(p, Resp(c, "not_owner"))
                                              /\ UNCHANGED vmlock
               ELSE /\ bseq < MaxHist
                    /\ vmlock' = [vmlock EXCEPT ![v] = p]
                    /\ Set(p, [c EXCEPT !.pc = "cancel_commit", !.lease = row.lease])
            /\ UNCHANGED <<now, vms, queue, qlock, users, bookings, bseq, jobs, db_lock>>

CancelLock(p) == CancelOn(p, VmsIn)

\* an update that clears the owner and forgets the expiry
ClearedOwnerOnly(row) == [row EXCEPT !.booked_by = NoUser, !.lease = 0]

\* update(vms).values(booked_by=None, expires_at=None)
Cleared(row) == [row EXCEPT !.booked_by = NoUser, !.expires_at = NoTime, !.lease = 0]

\* update(vms) cleared; insert(bookings) 'cancel'; commit
CancelCommit(p) ==
    LET v == proc[p].vm
    IN  /\ proc[p].pc = "cancel_commit"
        /\ vms' = [vms EXCEPT ![v] = Cleared(vms[v])]
        /\ AddBooking(proc[p].user, v, now, NoTime, "cancel")
        /\ vmlock' = [vmlock EXCEPT ![v] = NoProc]
        /\ Set(p, [proc[p] EXCEPT !.pc = "cancel_unschedule"])
        /\ UNCHANGED <<now, queue, qlock, users, jobs, db_lock>>

\* remove_scheduled_jobs_for_vm: scheduler.remove_job for notify_<vm> and release_<vm>
WithoutJobsFor(js, v) == {j \in js : j.vm_id # v}

CancelUnschedule(p) ==
    /\ proc[p].pc = "cancel_unschedule"
    /\ jobs' = WithoutJobsFor(jobs, proc[p].vm)
    /\ Set(p, [proc[p] EXCEPT !.pc = "sched_begin"])
    /\ UNCHANGED <<now, vms, vmlock, queue, qlock, users, bookings, bseq, db_lock>>

\* --------------------------------------------------------- schedule_jobs
\* get_all_vms(): every vms row with its queue emails, read in one session
VmView(v) ==
    IF vms[v].exists
    THEN [exists |-> TRUE, booked_by |-> vms[v].booked_by, expires_at |-> vms[v].expires_at,
          first |-> FirstOf(QueueEmails(queue, v)), lease |-> vms[v].lease]
    ELSE NoView

\* with db_lock: remove_notify_release_jobs(); vms_list = get_all_vms(); now = datetime.now()
Rederive(p, c) ==
    /\ db_lock = NoProc
    /\ db_lock' = p
    /\ jobs' = {}
    /\ Set(p, [c EXCEPT !.pc = "sched_add", !.t = now, !.sj = [v \in VMs |-> VmView(v)]])
    /\ UNCHANGED <<now, vms, vmlock, queue, qlock, users, bookings, bseq>>

\* schedule_jobs() called at the end of book_vm, renew_vm and cancel_booking
SchedBegin(p) ==
    /\ proc[p].pc = "sched_begin"
    /\ Rederive(p, proc[p])

\* socketio.emit('notification', ...) after the transaction of book_vm, renew_vm or
\* cancel_booking raises: no except clause is around it, the exception leaves the handler,
\* schedule_jobs() is not called and the request is answered with status 500
EmitError(p) ==
    /\ proc[p].pc = "sched_begin"
    /\ Set(p, Resp(proc[p], "error"))
    /\ UNCHANGED <<now, vms, vmlock, queue, qlock, users, bookings, bseq, jobs, db_lock>>

\* schedule_jobs() called by the socket connect hook
Connect(p) ==
    /\ proc[p].pc = "idle"
    /\ Rederive(p, Begin("connect", NoUser, NoVm))

\* a re-derivation that also schedules the dates that have passed
JobsWhateverTime(v, vw, t) ==
    IF ~vw.exists \/ vw.booked_by = NoUser \/ ParseIso(vw.expires_at) = NoTime
    THEN {}
    ELSE {[kind |-> "notify", vm_id |-> v, run_date |-> ParseIso(vw.expires_at) - NotifyLead,
           target |-> vw.first, lease |-> vw.lease],
          [kind |-> "release", vm_id |-> v, run_date |-> ParseIso(vw.expires_at),
           target |-> NoUser, lease |-> vw.lease]}

\* the date jobs schedule_jobs adds for one vm of vms_list
JobsFor(v, vw, t) ==
    LET expires == ParseIso(vw.expires_at)
        notify_time == expires - NotifyLead
    IN  IF ~vw.exists \/ vw.booked_by = NoUser \/ vw.expires_at = NoTime \/ expires = NoTime
        THEN {}
        ELSE (IF notify_time > t
              THEN {[kind |-> "notify", vm_id |-> v, run_date |-> notify_time,
                     target |-> vw.first, lease |-> vw.lease]}
              ELSE {})
             \cup
             (IF expires > t
              THEN {[kind |-> "release", vm_id |-> v, run_date |-> expires,
                     target |-> NoUser, lease |-> vw.lease]}
              ELSE {})

\* scheduler.add_job(..., id=..., replace_existing=True)
AddJobs(js, new) ==
    {j \in js : ~\E n \in new : n.kind = j.kind /\ n.vm_id = j.vm_id} \cup new

\* the loop over vms_list; the lock is released; the handler responds
SchedAdd(p) ==
    /\ proc[p].pc = "sched_add"
    /\ jobs' = AddJobs(jobs, UNION {JobsFor(v, proc[p].sj[v], proc[p].t) : v \in VMs})
    /\ db_lock' = NoProc
    /\ IF proc[p].op = "connect" THEN Set(p, Idle) ELSE Set(p, Resp(proc[p], "ok"))
    /\ UNCHANGED <<now, vms, vmlock, queue, qlock, users, bookings, bseq>>

\* ----------------------------------------------------------------- clock
\* an hour passes, up to the hour `last`
TickTo(last) ==
    /\ now < last
    /\ now' = now + 1
    /\ UNCHANGED <<vms, vmlock, queue, qlock, users, bookings, bseq, jobs, db_lock, proc>>

Tick == TickTo(MaxTime)

\* ------------------------------------------------------------ queue/join
\* a capacity test that lets one more in
QueueFullAbove(existing_emails) == Len(existing_emails) > QueueCap

\* if len(existing_emails) >= 10: 'Очередь заполнена'
QueueFull(existing_emails) == Len(existing_emails) >= QueueCap

IndexOf(s, e) == CHOOSE i \in 1..Len(s) : s[i] = e /\ \A k \in 1..(i - 1) : s[k] # e

\* a membership test that finds nobody
InSeqNever(s, e) == FALSE

InSeq(s, e) == \E i \in 1..Len(s) : s[i] = e

\* with session.begin(): vm_row = select(vms.id, booked_by).with_for_update();
\* existing_emails = select(queue.email).where(vm_id).order_by(position).with_for_update();
\* already_in_queue / full / owner, else next_pos = len(existing_emails) + 1
JoinOn(p, V) ==
    \E u \in Users, v \in V :
        LET c == Begin("join", u, v)
            row == vms[v]
            existing_emails == QueueEmails(queue, v)
        IN  /\ proc[p].pc = "idle"
            /\ RowLockFree(p, v)
            /\ IF ~row.exists THEN /\ Set(p, Resp(c, "not_found"))
                                   /\ UNCHANGED <<vmlock, qlock>>
               ELSE /\ QueueLockFree(p, v)
                    /\ IF InSeq(existing_emails, u)
                       THEN /\ Set(p, RespPos(c, "already_in_queue", IndexOf(existing_emails, u)))
                            /\ UNCHANGED <<vmlock, qlock>>
                       ELSE IF QueueFull(existing_emails)
                       THEN /\ Set(p, Resp(c, "queue_full"))
                            /\ UNCHANGED <<vmlock, qlock>>
                       ELSE IF row.booked_by = u
                       THEN /\ Set(p, Resp(c, "self_owner"))
                            /\ UNCHANGED <<vmlock, qlock>>
                       ELSE /\ vmlock' = [vmlock EXCEPT ![v] = p]
                            /\ qlock' = [qlock EXCEPT ![v] = p]
                            /\ Set(p, [c EXCEPT !.pc = "join_commit",
                                                !.pos = Len(existing_emails) + 1])
            /\ UNCHANGED <<now, vms, queue, users, bookings, bseq, jobs, db_lock>>

JoinLock(p) == JoinOn(p, VmsIn)

\* insert(queue).values(vm_id, email, position=next_pos); commit; respond
JoinCommit(p) ==
    LET v == proc[p].vm
    IN  /\ proc[p].pc = "join_commit"
        /\ queue' = queue \cup {[id |-> FreshQid, vm_id |-> v, email |-> proc[p].user,
                                 position |-> proc[p].pos]}
        /\ vmlock' = [vmlock EXCEPT ![v] = NoProc]
        /\ qlock' = [qlock EXCEPT ![v] = NoProc]
        /\ Set(p, RespPos(proc[p], "ok", proc[p].pos))
        /\ UNCHANGED <<now, vms, users, bookings, bseq, jobs, db_lock>>

\* ----------------------------------------------------------- queue/leave
\* one transaction, every read of it a locking read:
\* row = select(queue.id, position).where(vm_id, email).with_for_update(); delete it;
\* remaining = select(...).order_by(position).with_for_update(); renumber from 1; commit
LeaveOn(p, V) ==
    \E u \in Users, v \in V :
        LET c == Begin("leave", u, v)
            mine == {r \in QRows(queue, v) : r.email = u}
            row == CHOOSE r \in mine : \A o \in mine : r.id <= o.id
            rest == queue \ {row}
        IN  /\ proc[p].pc = "idle"
            /\ QueueLockFree(p, v)
            /\ IF mine = {} THEN /\ Set(p, Resp(c, "not_queued"))
                                 /\ UNCHANGED queue
               ELSE /\ queue' = Renumber(rest, OrderByPosition(QRows(rest, v)))
                    /\ Set(p, Resp(c, "ok"))
            /\ UNCHANGED <<now, vms, vmlock, qlock, users, bookings, bseq, jobs, db_lock>>

Leave(p) == LeaveOn(p, VmsIn)

\* ------------------------------------------------------------ release_vm
\* where release_vm returns to: the sweep's loop over expired, or the end of the job
AfterRelease(c) ==
    IF c.op = "sweep" /\ Len(c.expired) > 1
    THEN [Idle EXCEPT !.op = "sweep", !.pc = "release_lock", !.vm = c.expired[2],
                      !.expired = Tail(c.expired)]
    ELSE Idle

\* with session.begin(): row = select(vms).with_for_update(); user_exists(booked_by);
\* first = select(queue.email).where(vm_id).order_by(position).limit(1)   (a plain read:
\* it fixes the snapshot of this transaction)
ReleaseBegin(p, c) ==
    LET v == c.vm
        row == vms[v]
    IN  /\ RowLockFree(p, v)
        /\ IF ~row.exists THEN /\ Set(p, AfterRelease(c))
                               /\ UNCHANGED vmlock
           ELSE /\ vmlock' = [vmlock EXCEPT ![v] = p]
                /\ Set(p, [c EXCEPT !.pc = "release_commit",
                              !.user = row.booked_by,
                              !.rec = (row.booked_by # NoUser /\ row.booked_by \in users),
                              !.t = now,
                              !.first = FirstOf(QueueEmails(queue, v)),
                              !.snap = QRows(queue, v)])
        /\ UNCHANGED <<now, vms, queue, qlock, users, bookings, bseq, db_lock>>

\* release_vm(vm_id) for the next vm of the sweep's list
ReleaseLock(p) ==
    /\ proc[p].pc = "release_lock"
    /\ ReleaseBegin(p, proc[p])
    /\ UNCHANGED jobs

\* delete(queue).where(vm_id, email == first) acts on the committed rows;
\* remaining = select(queue.id, email).where(vm_id).order_by(position) is a plain read:
\* the snapshot without the rows this transaction deleted;
\* update(queue).where(id == r.id).values(position=pos) acts on the committed rows
PopFirst(tbl, snap, v, first) ==
    LET gone == {r \in tbl : r.vm_id = v /\ r.email = first}
    IN  IF first = NoUser THEN tbl
        ELSE Renumber(tbl \ gone, OrderByPosition({r \in snap : \A g \in gone : g.id # r.id}))

\* the requesters whose rows delete(queue).where(vm_id, email == first) removes
Popped(tbl, v, first) == {r.email : r \in {x \in QRows(tbl, v) : x.email = first}}

\* insert 'release' if the owner is a user; update(vms) cleared;
\* pop the first of the queue and renumber; commit
ReleaseCommit(p) ==
    LET v == proc[p].vm
    IN  /\ proc[p].pc = "release_commit"
        /\ proc[p].first # NoUser => QueueLockFree(p, v)
        /\ vms' = [vms EXCEPT ![v] = Cleared(vms[v])]
        /\ queue' = PopFirst(queue, proc[p].snap, v, proc[p].first)
        /\ IF proc[p].rec THEN AddBooking(proc[p].user, v, proc[p].t, NoTime, "release")
                          ELSE UNCHANGED <<bookings, bseq>>
        /\ vmlock' = [vmlock EXCEPT ![v] = NoProc]
        /\ Set(p, [proc[p] EXCEPT !.pc = "release_unschedule", !.snap = {},
                                  !.popped = Popped(queue, v, proc[p].first)])
        /\ UNCHANGED <<now, qlock, users, jobs, db_lock>>

\* if first: emit('notification', {msg: 'VM released, you can book it now', target: first});
\* emit('notification', {msg: 'VM released'})
ReleaseEvents(v, first) ==
    (IF first # NoUser THEN <<[msg |-> "available", vm_id |-> v, target |-> first]>> ELSE <<>>)
    \o <<[msg |-> "released", vm_id |-> v, target |-> NoUser]>>

\* remove_scheduled_jobs_for_vm(vm_id), then the notifications
ReleaseUnschedule(p) ==
    /\ proc[p].pc = "release_unschedule"
    /\ jobs' = WithoutJobsFor(jobs, proc[p].vm)
    /\ Set(p, [proc[p] EXCEPT !.pc = "release_done",
                              !.out = ReleaseEvents(proc[p].vm, proc[p].first)])
    /\ UNCHANGED <<now, vms, vmlock, queue, qlock, users, bookings, bseq, db_lock>>

\* release_vm returns to its caller
ReleaseReturn(p) ==
    /\ proc[p].pc = "release_done"
    /\ Set(p, AfterRelease(proc[p]))
    /\ UNCHANGED <<now, vms, vmlock, queue, qlock, users, bookings, bseq, jobs, db_lock>>

\* a statement of release_vm's transaction raises (the store is unreachable, a deadlock, a
\* lock wait timeout): the transaction is rolled back and the exception leaves release_vm
ReleaseStoreError(p) ==
    /\ proc[p].pc \in {"release_lock", "release_commit"}
    /\ vmlock' = [v \in VMs |-> IF vmlock[v] = p THEN NoProc ELSE vmlock[v]]
    /\ Set(p, [proc[p] EXCEPT !.pc = "release_failed", !.snap = {}, !.first = NoUser])
    /\ UNCHANGED <<now, vms, queue, qlock, users, bookings, bseq, jobs, db_lock>>

\* remove_scheduled_jobs_for_vm(vm_id); then one of the two socketio.emit calls raises:
\* the events before it went out and the exception leaves release_vm
ReleaseEmitError(p) ==
    /\ proc[p].pc = "release_unschedule"
    /\ jobs' = WithoutJobsFor(jobs, proc[p].vm)
    /\ \E n \in 0..(Len(ReleaseEvents(proc[p].vm, proc[p].first)) - 1) :
          Set(p, [proc[p] EXCEPT !.pc = "release_failed",
                                 !.out = SubSeq(ReleaseEvents(proc[p].vm, proc[p].first), 1, n)])
    /\ UNCHANGED <<now, vms, vmlock, queue, qlock, users, bookings, bseq, db_lock>>

\* an exception of release_vm that ends the pass
Uncaught(c) == Idle

\* except Exception: app.logger.exception(...) inside the sweep's loop: the loop goes on;
\* the scheduler logs the exception of a date job
Caught(c) == AfterRelease(c)

ReleaseCaught(p) ==
    /\ proc[p].pc = "release_failed"
    /\ Set(p, Caught(proc[p]))
    /\ UNCHANGED <<now, vms, vmlock, queue, qlock, users, bookings, bseq, jobs, db_lock>>

\* ------------------------------------------- check_and_release_expired_vms
RECURSIVE VmSeq(_)
VmSeq(S) == IF S = {} THEN <<>>
            ELSE LET v == CHOOSE x \in S : \A y \in S : x <= y IN <<v>> \o VmSeq(S \ {v})

\* a scan that takes a lease only once its expiry lies strictly in the past
ExpiredStrict(t) ==
    VmSeq({v \in VMs : /\ vms[v].booked_by # NoUser
                       /\ ParseIso(vms[v].expires_at) # NoTime
                       /\ ParseIso(vms[v].expires_at) < t})

\* rows with booked_by and expires_at not null whose parsed expires_at <= now
Expired(t) ==
    VmSeq({v \in VMs : /\ vms[v].exists
                       /\ vms[v].booked_by # NoUser
                       /\ vms[v].expires_at # NoTime
                       /\ ParseIso(vms[v].expires_at) # NoTime
                       /\ ParseIso(vms[v].expires_at) <= t})

\* a pass of the interval job (one instance at a time): the scan; release_vm follows
\* for each vm found expired
SweepScan(p) ==
    /\ proc[p].pc = "idle"
    /\ \A q \in Procs : proc[q].op # "sweep"
    /\ IF Expired(now) = <<>> THEN UNCHANGED proc
       ELSE Set(p, [Idle EXCEPT !.op = "sweep", !.pc = "release_lock",
                                !.vm = Expired(now)[1], !.expired = Expired(now)])
    /\ UNCHANGED <<now, vms, vmlock, queue, qlock, users, bookings, bseq, jobs, db_lock>>

\* ---------------------------------------------------- db_retry, _safe_exec
\* @db_retry() around check_and_release_expired_vms: wrapped() starts with attempt 0 of
\* range(max_retries); the function opens its session and is about to scan
SweepTry(p) ==
    /\ proc[p].pc = "idle"
    /\ \A q \in Procs : proc[q].op # "sweep"
    /\ Set(p, [Idle EXCEPT !.op = "sweep", !.pc = "scan"])
    /\ UNCHANGED <<now, vms, vmlock, queue, qlock, users, bookings, bseq, jobs, db_lock>>

\* a retry loop that goes round without counting
RetryForever(c) == [c EXCEPT !.calls = 0]

\* except (OperationalError, InterfaceError, DatabaseError, PendingRollbackError):
\* last_exc = exc; sleep; the next attempt of range(max_retries) starts, and after the
\* last one: raise last_exc
NextAttempt(c) ==
    IF c.attempt + 1 < MaxRetries
    THEN [c EXCEPT !.attempt = c.attempt + 1, !.calls = 0]
    ELSE [Resp(c, "error") EXCEPT !.attempt = c.attempt + 1]

\* _safe_exec: thunk() returns the rows, on its first call or on the call after the
\* rollback; the function goes on as the scan does
ScanOk(p) ==
    /\ proc[p].pc = "scan"
    /\ IF Expired(now) = <<>> THEN Set(p, Idle)
       ELSE Set(p, [Idle EXCEPT !.op = "sweep", !.pc = "release_lock",
                                !.vm = Expired(now)[1], !.expired = Expired(now)])
    /\ UNCHANGED <<now, vms, vmlock, queue, qlock, users, bookings, bseq, jobs, db_lock>>

\* _safe_exec: thunk() raises PendingRollbackError.  On the first call: session.rollback()
\* and thunk() is called once more; on the second call the exception leaves _safe_exec
\* and db_retry catches it
ScanPendingRollback(p) ==
    /\ proc[p].pc = "scan"
    /\ IF proc[p].calls = 0
       THEN Set(p, [proc[p] EXCEPT !.calls = 1])
       ELSE Set(p, NextAttempt(proc[p]))
    /\ UNCHANGED <<now, vms, vmlock, queue, qlock, users, bookings, bseq, jobs, db_lock>>

\* _safe_exec: thunk() raises OperationalError, InterfaceError or DatabaseError: the
\* exception leaves _safe_exec and db_retry catches it
ScanTransient(p) ==
    /\ proc[p].pc = "scan"
    /\ Set(p, NextAttempt(proc[p]))
    /\ UNCHANGED <<now, vms, vmlock, queue, qlock, users, bookings, bseq, jobs, db_lock>>

\* the call of thunk() in _safe_exec, whatever its outcome
ScanCall(p) == ScanOk(p) \/ ScanPendingRollback(p) \/ ScanTransient(p)

\* ------------------------------------------------------------- date jobs
\* the release_<vm> job comes due: the scheduler runs release_vm(vm_id) on a worker
FireRelease(p) ==
    \E j \in jobs :
        /\ j.kind = "release"
        /\ j.run_date <= now
        /\ proc[p].pc = "idle"
        /\ jobs' = jobs \ {j}
        /\ ReleaseBegin(p, Begin("timer_release", NoUser, j.vm_id))

\* the notify_<vm> job comes due: the notification is emitted
FireNotify ==
    \E j \in jobs :
        /\ j.kind = "notify"
        /\ j.run_date <= now
        /\ jobs' = jobs \ {j}
        /\ UNCHANGED <<now, vms, vmlock, queue, qlock, users, bookings, bseq, db_lock, proc>>

\* ------------------------------------------------------------- delete-vm
\* row = select(vms) (plain read); if booked: add_booking_record(owner, 'deleted') commits
DeleteOn(p, V) ==
    \E v \in V :
        LET c == Begin("delete", NoUser, v)
            row == vms[v]
        IN  /\ proc[p].pc = "idle"
            /\ IF ~row.exists THEN /\ Set(p, Resp(c, "not_found"))
                                   /\ UNCHANGED <<bookings, bseq>>
               ELSE /\ IF row.booked_by # NoUser
                       THEN AddBooking(row.booked_by, v, now, NoTime, "deleted")
                       ELSE UNCHANGED <<bookings, bseq>>
                    /\ Set(p, [c EXCEPT !.pc = "delete_unschedule", !.lease = row.lease])
            /\ UNCHANGED <<now, vms, vmlock, queue, qlock, users, jobs, db_lock>>

DeleteRead(p) == DeleteOn(p, VmsIn)

\* remove_scheduled_jobs_for_vm(vm_id)
DeleteUnschedule(p) ==
    /\ proc[p].pc = "delete_unschedule"
    /\ jobs' = WithoutJobsFor(jobs, proc[p].vm)
    /\ Set(p, [proc[p] EXCEPT !.pc = "delete_commit"])
    /\ UNCHANGED <<now, vms, vmlock, queue, qlock, users, bookings, bseq, db_lock>>

\* a delete that leaves the waitlist rows
PurgedNothing(tbl, v) == tbl

\* delete(queue).where(queue.c.vm_id == vm_id)
Purged(tbl, v) == {r \in tbl : r.vm_id # v}

\* delete(vms), delete(queue), delete(group_vms) for the vm; commit; respond
DeleteCommit(p) ==
    LET v == proc[p].vm
    IN  /\ proc[p].pc = "delete_commit"
        /\ RowLockFree(p, v)
        /\ QueueLockFree(p, v)
        /\ vms' = [vms EXCEPT ![v] = NoRow]
        /\ queue' = Purged(queue, v)
        /\ Set(p, Resp(proc[p], "ok"))
        /\ UNCHANGED <<now, vmlock, qlock, users, bookings, bseq, jobs, db_lock>>

\* ---------------------------------------------------------------- add-vm
\* 400 if the id exists, else insert(vms) with booked_by=None, expires_at=None
AddVmOn(p, V) ==
    \E v \in V :
        LET c == Begin("add_vm", NoUser, v)
        IN  /\ proc[p].pc = "idle"
            /\ IF vms[v].exists THEN /\ Set(p, Resp(c, "exists"))
                                     /\ UNCHANGED vms
               ELSE /\ vms' = [vms EXCEPT ![v] = FreeRow]
                    /\ Set(p, Resp(c, "ok"))
            /\ UNCHANGED <<now, vmlock, queue, qlock, users, bookings, bseq, jobs, db_lock>>

AddVm(p) == AddVmOn(p, VmsIn)

\* ------------------------------------------------------------------ auth
\* ensure_user(email) (INSERT IGNORE); add_booking_record(email, None, action='login')
Auth(p) ==
    \E u \in Users :
        /\ proc[p].pc = "idle"
        /\ users' = users \cup {u}
        /\ AddBooking(u, NoVm, now, NoTime, "login")
        /\ Set(p, Resp(Begin("auth", u, NoVm), "ok"))
        /\ UNCHANGED <<now, vms, vmlock, queue, qlock, jobs, db_lock>>

\* ----------------------------------------------------- purge_old_history
\* users_map[user_email][vm_id]: the records of one (requester, resource) pair
SamePair(a, b) == a.user_email = b.user_email /\ a.vm_id = b.vm_id

\* first loop over a pair's events: 'book' goes by its end, every other action by its
\* start; a value that is missing or does not parse keeps the record
KeptByAge(r, cutoff) ==
    IF r.action = "book"
    THEN ~(ParseIso(r.end) # NoTime /\ ParseIso(r.end) < cutoff)
    ELSE ~(ParseIso(r.start) # NoTime /\ ParseIso(r.start) < cutoff)

\* b['_start_dt'] <= cancel_time; two timestamps taken in the same hour are ordered as
\* their rows were inserted
StartNotAfter(b, c) == b.start < c.start \/ (b.start = c.start /\ b.id <= c.id)

\* a pass without its second loop
NeverTerminated(b, rows, cutoff) == FALSE

\* second loop: a 'cancel' / 'release' older than the cutoff discards the pair's 'book'
\* records that started no later (prev_books)
Terminated(b, rows, cutoff) ==
    /\ b.action = "book"
    /\ \E i \in 1..Len(rows) :
          /\ rows[i].action \in {"cancel", "release"}
          /\ SamePair(rows[i], b)
          /\ ParseIso(rows[i].start) # NoTime
          /\ ParseIso(rows[i].start) < cutoff
          /\ StartNotAfter(b, rows[i])

\* keep_records computed from the rows read, for the pass that started at time t
KeepRecords(rows, t) ==
    SelectSeq(rows, LAMBDA r : /\ KeptByAge(r, t - HistoryKeep)
                               /\ ~Terminated(r, rows, t - HistoryKeep))

\* a pass of the hourly job (one instance at a time): now, cutoff, the plain read of
\* the whole table in its own session, and keep_records
PurgeRead(p) ==
    /\ proc[p].pc = "idle"
    /\ \A q \in Procs : proc[q].op # "purge"
    /\ Set(p, [Idle EXCEPT !.op = "purge", !.pc = "purge_write", !.t = now,
                           !.rows = bookings,
                           !.keep = KeepRecords(bookings, now)])
    /\ UNCHANGED <<now, vms, vmlock, queue, qlock, users, bookings, bseq, jobs, db_lock>>

\* with session.begin(): delete(bookings); insert every record of keep_records with its
\* id, user_email, vm_id, start, end, action; commit
PurgeWrite(p) ==
    /\ proc[p].pc = "purge_write"
    /\ bookings' = proc[p].keep
    /\ Set(p, [proc[p] EXCEPT !.pc = "purge_log"])
    /\ UNCHANGED <<now, vms, vmlock, queue, qlock, users, bseq, jobs, db_lock>>

\* if keep_records: app.logger.info(...); the job ends
PurgeLog(p) ==
    /\ proc[p].pc = "purge_log"
    /\ Set(p, Idle)
    /\ UNCHANGED <<now, vms, vmlock, queue, qlock, users, bookings, bseq, jobs, db_lock>>

\* ------------------------------------------------------------------ Next
Next ==
    \/ \E p \in Procs :
          \/ Return(p)
          \/ BookLock(p) \/ BookCommit(p)
          \/ RenewLock(p) \/ RenewCommit(p)
          \/ CancelLock(p) \/ CancelCommit(p) \/ CancelUnschedule(p)
          \/ SchedBegin(p) \/ SchedAdd(p) \/ Connect(p)
          \/ JoinLock(p) \/ JoinCommit(p) \/ Leave(p)
          \/ ReleaseLock(p) \/ ReleaseCommit(p) \/ ReleaseUnschedule(p) \/ ReleaseReturn(p)
          \/ SweepScan(p) \/ FireRelease(p)
          \/ DeleteRead(p) \/ DeleteUnschedule(p) \/ DeleteCommit(p)
          \/ AddVm(p) \/ Auth(p)
    \/ FireNotify
    \/ Tick

Spec == Init /\ [][Next]_vars

\* =============================================================== properties

\* ---------------------------------------------------------------- C1
\* C1: in every reachable state, whatever Book, Renew, Cancel, Release, Delete, Join and
\* Leave did, every resource has its owner set if and only if its expiry is set
OwnerIffExpiry ==
    \A v \in VMs : vms[v].booked_by # NoUser <=> vms[v].expires_at # NoTime

\* a lease that was booked and renewed has just been cleared by release_vm
OwnerIffExpiryWitness ==
    \E p \in Procs :
        /\ proc[p].pc = "release_unschedule"
        /\ vms[proc[p].vm].exists
        /\ vms[proc[p].vm].booked_by = NoUser
        /\ \E i \in 1..Len(bookings) : bookings[i].action = "renew"

\* ---------------------------------------------------------------- C2
\* hours that requests carry where the clamp matters: below, inside and above 1..24
HoursWide == {0, 2, 30}

\* two workers, one Book call each, on resources that are free
RaceNext ==
    \/ \E p \in Procs : BookReq(p, HoursWide) \/ BookCommit(p) \/ SchedBegin(p) \/ SchedAdd(p)
    \/ Tick

RaceSpec == AddedInit /\ [][RaceNext]_vars

\* a Book call that committed its lease / that answered 400 'already booked'
BookWon(p) ==
    /\ proc[p].op = "book"
    /\ \/ proc[p].pc \in {"sched_begin", "sched_add"}
       \/ proc[p].pc = "ret" /\ proc[p].res = "ok"

BookLost(p) == proc[p].op = "book" /\ proc[p].pc = "ret" /\ proc[p].res = "already_leased"

\* C2: of two concurrent Book calls on the same free resource exactly one succeeds and is
\* the owner, the other answers already-leased; there is never a second lease
OneBookWins ==
    /\ \A p, q \in Procs :
          (p # q /\ proc[p].vm = proc[q].vm /\ (BookWon(p) \/ BookLost(p))
                 /\ (BookWon(q) \/ BookLost(q)))
          => \/ BookWon(p) /\ BookLost(q) /\ vms[proc[p].vm].booked_by = proc[p].user
             \/ BookLost(p) /\ BookWon(q) /\ vms[proc[q].vm].booked_by = proc[q].user
    /\ \A v \in VMs :
          Cardinality({i \in 1..Len(bookings) :
                          bookings[i].action = "book" /\ bookings[i].vm_id = v}) <= 1

\* both calls, by different requesters, have answered: one ok, one already-leased
OneBookWinsWitness ==
    /\ proc[1].user # proc[2].user
    /\ proc[1].vm = proc[2].vm
    /\ proc[1].op = "book" /\ proc[1].pc = "ret" /\ proc[1].res = "ok"
    /\ BookLost(2)

\* ---------------------------------------------------------------- C3
\* C3: in every committed state reachable under concurrent Join, Leave and Release the
\* waitlist positions of every resource are exactly 1..N, N the number of its entries
DensePositions ==
    \A v \in VMs :
        {r.position : r \in QRows(queue, v)} = 1..Cardinality(QRows(queue, v))

\* ---------------------------------------------------------------- C4
\* the waitlist of v after n other requesters (emails 11, 12, ...) joined, one by one
Waiting(v, n) == {[id |-> i, vm_id |-> v, email |-> 10 + i, position |-> i] : i \in 1..n}

\* every resource free, or leased for one hour at time 0 by a requester, the schedule
\* re-derived; then QueueCap - 2 .. QueueCap other requesters joined its waitlist
QueueInit ==
    /\ now = 0
    /\ \E o \in Users \cup {NoUser} :
          IF o = NoUser
          THEN /\ vms = [v \in VMs |-> IF v = 1 THEN FreeRow ELSE NoRow]
               /\ bookings = <<>>
               /\ bseq = 0
               /\ jobs = {}
          ELSE /\ vms = [v \in VMs |-> IF v = 1
                                       THEN [exists |-> TRUE, booked_by |-> o,
                                             expires_at |-> MinHours, lease |-> 1]
                                       ELSE NoRow]
               /\ bookings = <<[id |-> 1, user_email |-> o, vm_id |-> 1, start |-> 0,
                                end |-> MinHours, action |-> "book"]>>
               /\ bseq = 1
               /\ jobs = {[kind |-> "release", vm_id |-> 1, run_date |-> MinHours,
                           target |-> NoUser, lease |-> 1]}
    /\ \E n \in (QueueCap - 2)..QueueCap : queue = Waiting(1, n)
    /\ vmlock = [v \in VMs |-> NoProc]
    /\ qlock = [v \in VMs |-> NoProc]
    /\ users = {}
    /\ db_lock = NoProc
    /\ proc = [p \in Procs |-> Idle]

QueueNext == \E p \in Procs : JoinLock(p) \/ JoinCommit(p) \/ Leave(p) \/ Return(p)

QueueSpec == QueueInit /\ [][QueueNext]_vars

LeaseNext ==
    \/ \E p \in Procs :
          \/ BookReq(p, HoursWide) \/ BookCommit(p)
          \/ RenewReq(p, HoursWide) \/ RenewCommit(p)
          \/ CancelLock(p) \/ CancelCommit(p) \/ CancelUnschedule(p)
          \/ SchedBegin(p) \/ SchedAdd(p) \/ Return(p)
    \/ Tick

LeaseSpec == AddedInit /\ [][LeaseNext]_vars

\* C5: Renew by the owner of a lease with stored expiry E sets the expiry to
\* E + clamp(H, 1, 24) whatever the current time, leaves the owner unchanged and appends
\* exactly one history record, a renew record whose end is the new expiry
RenewExtendsExpiry ==
    [][\A p \in Procs :
          (proc[p].op = "renew" /\ proc[p].pc = "renew_commit" /\ proc'[p].pc # "renew_commit")
          => LET v == proc[p].vm
                 h == proc[p].hours
                 E == vms[v].expires_at
                 added == IF h < 1 THEN 1 ELSE IF h > 24 THEN 24 ELSE h
             IN  /\ vms[v].booked_by = proc[p].user
                 /\ E >= 0
                 /\ vms'[v].expires_at = E + added
                 /\ vms'[v].booked_by = vms[v].booked_by
                 /\ Len(bookings') = Len(bookings) + 1
                 /\ SubSeq(bookings', 1, Len(bookings)) = bookings
                 /\ bookings'[Len(bookings')].action = "renew"
                 /\ bookings'[Len(bookings')].user_email = proc[p].user
                 /\ bookings'[Len(bookings')].vm_id = v
                 /\ bookings'[Len(bookings')].end = vms'[v].expires_at]_vars

\* a lease booked at time 0 for one hour and renewed later for one hour ends at 2
RenewExtendsExpiryWitness ==
    /\ Len(bookings) = 2
    /\ bookings[1].action = "book" /\ bookings[1].start = 0 /\ bookings[1].end = 1
    /\ bookings[2].action = "renew" /\ bookings[2].start = 1 /\ bookings[2].end = 2
    /\ vms[bookings[2].vm_id].expires_at = 2
    /\ vms[bookings[2].vm_id].booked_by = bookings[1].user_email

\* ---------------------------------------------------------------- C6
\* C6: Release of an existing resource leaves owner and expiry cleared, removes exactly
\* the first entry of the waitlist and leaves the others in the same order at positions
\* 1..N-1; an empty waitlist stays empty
ReleasePopsFirst ==
    [][\A p \in Procs :
          (proc[p].pc = "release_commit" /\ proc'[p].pc = "release_unschedule")
          => LET v == proc[p].vm
                 before == QueueEmails(queue, v)
                 after == OrderByPosition(QRows(queue', v))
             IN  /\ vms'[v].booked_by = NoUser
                 /\ vms'[v].expires_at = NoTime
                 /\ Len(after) = IF before = <<>> THEN 0 ELSE Len(before) - 1
                 /\ \A i \in 1..Len(after) :
                       after[i].email = before[i + 1] /\ after[i].position = i]_vars

\* ---------------------------------------------------------------- C7
\* C7: a Join by a requester already waiting at position p answers already-queued with
\* position p and leaves the waitlist unchanged; a Join that adds the requester answers
\* the position it stored, and adds one entry
JoinIdempotent ==
    [][\A p \in Procs :
          /\ (proc[p].pc = "idle" /\ proc'[p].op = "join")
             => \A r \in QRows(queue, proc'[p].vm) :
                   r.email = proc'[p].user
                   => /\ proc'[p].pc = "ret"
                      /\ proc'[p].res = "already_in_queue"
                      /\ proc'[p].pos = r.position
                      /\ queue' = queue
          /\ (proc[p].pc = "join_commit" /\ proc'[p].pc = "ret")
             => /\ proc'[p].res = "ok"
                /\ Cardinality(queue') = Cardinality(queue) + 1
                /\ \E r \in queue' \ queue :
                      /\ r.vm_id = proc[p].vm
                      /\ r.email = proc[p].user
                      /\ r.position = proc'[p].pos]_vars

\* ---------------------------------------------------------------- C9
\* C9: release_vm run by the sweep or by a release job ends a lease only if the stored
\* expiry of that lease is <= now when it reads and clears the row
ReleaseOnlyExpired ==
    [][\A p \in Procs :
          (/\ proc[p].pc = "release_commit"
           /\ proc'[p].pc = "release_unschedule"
           /\ vms[proc[p].vm].booked_by # NoUser)
          => /\ ParseIso(vms[proc[p].vm].expires_at) # NoTime
             /\ ParseIso(vms[proc[p].vm].expires_at) <= now]_vars

\* ---------------------------------------------------------------- C10
\* C10: once Cancel or Delete of a resource has returned, no notify or release job of
\* that resource derived from the lease it ended is pending
NoJobOfEndedLease ==
    \A p \in Procs :
        (/\ proc[p].op \in {"cancel", "delete"}
         /\ proc[p].pc = "ret"
         /\ proc[p].res = "ok"
         /\ proc[p].lease # 0)
        => ~\E j \in jobs : j.vm_id = proc[p].vm /\ j.lease = proc[p].lease

\* ---------------------------------------------------------------- C8
\* the waitlists of one or two requesters, in every order, and the empty one
Waitlists(v) ==
    {{}} \cup {{[id |-> 1, vm_id |-> v, email |-> a, position |-> 1]} : a \in Users}
         \cup {w \in {{[id |-> 1, vm_id |-> v, email |-> a, position |-> 1],
                        [id |-> 2, vm_id |-> v, email |-> b, position |-> 2]} :
                       a \in Users, b \in Users} :
                \A r1, r2 \in w : r1.id # r2.id => r1.email # r2.email}

\* the process starts on a store that holds a lease booked at time 0 for one or two
\* hours and a waitlist; the scheduler holds no date job and schedule_jobs never runs
SweepInit ==
    /\ now = 0
    /\ \E o \in Users, e \in {MinHours, MinHours + 1} :
          /\ vms = [v \in VMs |-> IF v = 1
                                  THEN [exists |-> TRUE, booked_by |-> o,
                                        expires_at |-> e, lease |-> 1]
                                  ELSE NoRow]
          /\ bookings = <<[id |-> 1, user_email |-> o, vm_id |-> 1, start |-> 0,
                           end |-> e, action |-> "book"]>>
    /\ bseq = 1
    /\ queue \in Waitlists(1)
    /\ jobs = {}
    /\ vmlock = [v \in VMs |-> NoProc]
    /\ qlock = [v \in VMs |-> NoProc]
    /\ users = {}
    /\ db_lock = NoProc
    /\ proc = [p \in Procs |-> Idle]

\* the periodic sweep, the clock, and requesters leaving the waitlist meanwhile
SweepNext ==
    \/ \E p \in Procs :
          \/ SweepScan(p) \/ ReleaseLock(p) \/ ReleaseCommit(p) \/ ReleaseUnschedule(p) \/ ReleaseReturn(p)
          \/ Leave(p) \/ Return(p)
    \/ Tick

\* the interval trigger starts a pass every minute on the scheduler's own threads,
\* however often the request workers are busy (SF); a pass that has started, and a
\* response that is ready, go on whenever they can (WF)
SweepFairSpec ==
    /\ SweepInit
    /\ [][SweepNext]_vars
    /\ SF_vars(\E p \in Procs : SweepScan(p))
    /\ \A p \in Procs :
          /\ WF_vars(ReleaseLock(p))
          /\ WF_vars(ReleaseCommit(p))
          /\ WF_vars(ReleaseUnschedule(p))
          /\ WF_vars(ReleaseReturn(p))
          /\ WF_vars(Return(p))

\* the stored expiry of the lease on v has passed
Lapsed(v) ==
    /\ vms[v].booked_by # NoUser
    /\ ParseIso(vms[v].expires_at) # NoTime
    /\ ParseIso(vms[v].expires_at) <= now

\* C8: with no date job scheduled and schedule_jobs never run, a leased resource whose
\* stored expiry is <= now is eventually free, the sweep running fairly
LapsedLeaseFreed == \A v \in VMs : Lapsed(v) ~> (vms[v].booked_by = NoUser)

\* a pass of the sweep has just cleared the lease whose expiry had passed
LapsedLeaseFreedWitness ==
    \E p \in Procs :
        /\ proc[p].op = "sweep"
        /\ proc[p].pc = "release_unschedule"
        /\ vms[proc[p].vm].exists
        /\ vms[proc[p].vm].booked_by = NoUser
        /\ bookings[1].end <= now

\* ---------------------------------------------------------------- C11
\* the lease operations and logins of the requesters while the history ages and the
\* hourly compaction runs
PurgeNext ==
    \/ \E p \in Procs :
          \/ BookReq(p, HoursWide) \/ BookCommit(p)
          \/ RenewReq(p, HoursWide) \/ RenewCommit(p)
          \/ CancelLock(p) \/ CancelCommit(p) \/ CancelUnschedule(p)
          \/ SchedBegin(p) \/ SchedAdd(p) \/ Return(p)
          \/ Auth(p)
          \/ PurgeRead(p) \/ PurgeWrite(p) \/ PurgeLog(p)
    \/ TickTo(MaxAge)

PurgeSpec == AddedInit /\ [][PurgeNext]_vars

\* ---------------------------------------------------------------- C19
\* the bookings tables of up to MaxRows rows that the handlers can have written by the
\* hour MaxTime, one row after the other
MaxRows == 3

Row(i, u, v, s, e, a) ==
    [id |-> i, user_email |-> u, vm_id |-> v, start |-> s, end |-> e, action |-> a]

\* owner, expiry and 'book' row of the lease that the rows of h leave on v
RECURSIVE LeaseAfter(_, _)
LeaseAfter(h, v) ==
    IF h = <<>> THEN [booked_by |-> NoUser, expires_at |-> NoTime, lease |-> 0]
    ELSE LET r == h[Len(h)]
             before == LeaseAfter(SubSeq(h, 1, Len(h) - 1), v)
         IN  IF r.vm_id # v THEN before
             ELSE IF r.action = "book"
                  THEN [booked_by |-> r.user_email, expires_at |-> r.end, lease |-> r.id]
             ELSE IF r.action = "renew" THEN [before EXCEPT !.expires_at = r.end]
             ELSE [booked_by |-> NoUser, expires_at |-> NoTime, lease |-> 0]

LoggedIn(h) == {h[i].user_email : i \in {k \in 1..Len(h) : h[k].action = "login"}}

\* the rows that a handler can append to h at hour s: auth, book_vm on a free resource,
\* renew_vm and cancel_booking by the owner, release_vm of a lapsed lease of a known
\* user, delete_vm of a leased resource (add_vm brings the resource back)
NextRows(h, s) ==
    LET i == Len(h) + 1
    IN  {Row(i, u, NoVm, s, NoTime, "login") : u \in Users}
        \cup UNION {
            LET l == LeaseAfter(h, v)
            IN  IF l.booked_by = NoUser
                THEN {Row(i, u, v, s, s + Clamp(hh), "book") : u \in Users, hh \in HoursWide}
                ELSE {Row(i, l.booked_by, v, s, l.expires_at + Clamp(hh), "renew") :
                         hh \in HoursWide}
                     \cup {Row(i, l.booked_by, v, s, NoTime, "cancel"),
                           Row(i, l.booked_by, v, s, NoTime, "deleted")}
                     \cup (IF l.expires_at <= s /\ l.booked_by \in LoggedIn(h)
                           THEN {Row(i, l.booked_by, v, s, NoTime, "release")}
                           ELSE {})
            : v \in VmsIn}

RECURSIVE Histories(_)
Histories(n) ==
    IF n = 0 THEN {<<>>}
    ELSE LET shorter == Histories(n - 1)
         IN  shorter \cup
             UNION {{Append(h, r) : r \in UNION {NextRows(h, s) :
                                       s \in (IF h = <<>> THEN 0 ELSE h[Len(h)].start)..MaxTime}}
                    : h \in {g \in shorter : Len(g) = n - 1}}

\* the process starts on a store with such a history, at the hour of its last row or
\* later; the resources carry the leases the history leaves; no date job
CompactInit ==
    /\ bookings \in Histories(MaxRows)
    /\ bseq = Len(bookings)
    /\ now \in (IF bookings = <<>> THEN 0 ELSE bookings[Len(bookings)].start)..MaxTime
    /\ vms = [v \in VMs |-> IF v \in VmsIn
                             THEN [exists |-> TRUE,
                                   booked_by |-> LeaseAfter(bookings, v).booked_by,
                                   expires_at |-> LeaseAfter(bookings, v).expires_at,
                                   lease |-> LeaseAfter(bookings, v).lease]
                             ELSE NoRow]
    /\ users = LoggedIn(bookings)
    /\ queue = {}
    /\ jobs = {}
    /\ vmlock = [v \in VMs |-> NoProc]
    /\ qlock = [v \in VMs |-> NoProc]
    /\ db_lock = NoProc
    /\ proc = [p \in Procs |-> Idle]

\* the hourly compaction, the clock, and logins meanwhile
CompactNext ==
    \/ \E p \in Procs : PurgeRead(p) \/ PurgeWrite(p) \/ PurgeLog(p) \/ Auth(p) \/ Return(p)
    \/ TickTo(MaxAge)

CompactSpec == CompactInit /\ [][CompactNext]_vars

\* the retention policy at hour t over the table rows: a 'book' row stays when its end is
\* not older than an hour and no cancel or release of its pair, older than an hour, was
\* written at or after it; every other row stays when its start is not older than an hour
Retained(r, rows, t) ==
    IF r.action = "book"
    THEN /\ r.end >= t - 1
         /\ ~\E i \in 1..Len(rows) :
                /\ rows[i].action \in {"cancel", "release"}
                /\ rows[i].user_email = r.user_email
                /\ rows[i].vm_id = r.vm_id
                /\ rows[i].start < t - 1
                /\ StartNotAfter(r, rows[i])
    ELSE r.start >= t - 1

HasRow(rows, r) == \E j \in 1..Len(rows) : rows[j] = r

\* ---------------------------------------------------------------- C11
\* C11: a compaction pass loses no row that the retention policy keeps: every retained
\* row of the table at the moment the pass commits, the rows appended since the pass
\* read the table included, is in the table after the commit
RetainedRowsSurvive ==
    [][\A p \in Procs :
          PurgeWrite(p) =>
              \A i \in 1..Len(bookings) :
                  Retained(bookings[i], bookings, proc[p].t) => HasRow(bookings', bookings[i])]_vars

\* ---------------------------------------------------------------- C12
\* C12: after a compaction pass every resource leased with an expiry in the future has a
\* 'book' or 'renew' row of its owner whose end is the resource's current expiry
LeaseRowKept ==
    [][\A p \in Procs :
          PurgeWrite(p) =>
              \A v \in VMs :
                  (/\ vms'[v].exists
                   /\ vms'[v].booked_by # NoUser
                   /\ ParseIso(vms'[v].expires_at) > now')
                  => \E j \in 1..Len(bookings') :
                        /\ bookings'[j].action \in {"book", "renew"}
                        /\ bookings'[j].user_email = vms'[v].booked_by
                        /\ bookings'[j].vm_id = v
                        /\ bookings'[j].end = vms'[v].expires_at]_vars

\* ---------------------------------------------------------------- C13
\* the entry of the next state that continues the entry r
Later(r) == CHOOSE n \in queue' : n.id = r.id

\* C13: the waitlist is first in, first out: an entry that joins is placed behind every
\* entry already waiting for the resource, leave_queue and release_vm remove at most one
\* entry, and two entries that stay keep their order
WaitlistFifo ==
    [][\A v \in VMs :
          LET old == QRows(queue, v)
              new == QRows(queue', v)
              stay == {r \in old : \E n \in new : n.id = r.id}
          IN  /\ \A n \in new :
                    (\A r \in old : r.id # n.id)
                    => \A r \in stay : Later(r).position < n.position
              /\ (\E p \in Procs : Leave(p) \/ ReleaseCommit(p)) => Cardinality(old \ stay) <= 1
              /\ \A r1, r2 \in stay :
                    r1.position < r2.position => Later(r1).position < Later(r2).position]_vars

\* ---------------------------------------------------------------- C14
\* the requests that can be refused, on a resource with a nearly full waitlist that is
\* leased, cancelled, deleted and added again
RejectNext ==
    \E p \in Procs :
        \/ BookLock(p) \/ BookCommit(p)
        \/ RenewLock(p) \/ RenewCommit(p)
        \/ CancelLock(p) \/ CancelCommit(p) \/ CancelUnschedule(p)
        \/ SchedBegin(p) \/ SchedAdd(p)
        \/ JoinLock(p) \/ JoinCommit(p) \/ Leave(p)
        \/ DeleteRead(p) \/ DeleteUnschedule(p) \/ DeleteCommit(p)
        \/ AddVm(p)
        \/ Return(p)

RejectSpec == QueueInit /\ [][RejectNext]_vars

\* worker p takes up a request op in this step
TakesUp(p, op) == proc[p].pc = "idle" /\ proc'[p].op = op

\* worker p answers one of the errors errs in this step and the owner, the expiry, the
\* waitlists and the history stay as they are
Refuses(p, errs) ==
    /\ proc'[p].pc = "ret"
    /\ proc'[p].res \in errs
    /\ UNCHANGED <<vms, queue, bookings>>

\* C14: a request that fails changes nothing: Book on a leased or absent resource, Renew
\* and Cancel by a requester who is not the owner, Join on a full waitlist or by the
\* owner, Leave by a requester who is not waiting are refused with the store unchanged,
\* and the handlers write only when none of these holds at the moment of the write
FailedOpsChangeNothing ==
    [][\A p \in Procs :
          LET c == proc'[p]
              waiting == {r.email : r \in QRows(queue, c.vm)}
          IN  /\ (TakesUp(p, "book") /\ (~vms[c.vm].exists \/ vms[c.vm].booked_by # NoUser))
                 => Refuses(p, {"not_found", "already_leased"})
              /\ (TakesUp(p, "renew") /\ vms[c.vm].booked_by # c.user)
                 => Refuses(p, {"not_found", "not_owner"})
              /\ (TakesUp(p, "cancel") /\ vms[c.vm].booked_by # c.user)
                 => Refuses(p, {"not_found", "not_owner"})
              /\ (/\ TakesUp(p, "join") /\ vms[c.vm].exists /\ c.user \notin waiting
                  /\ (Cardinality(waiting) >= QueueCap \/ vms[c.vm].booked_by = c.user))
                 => Refuses(p, {"queue_full", "self_owner"})
              /\ (TakesUp(p, "leave") /\ c.user \notin waiting)
                 => Refuses(p, {"not_queued"})
              /\ BookCommit(p) => vms[c.vm].exists /\ vms[c.vm].booked_by = NoUser
              /\ RenewCommit(p) \/ CancelCommit(p) => vms[c.vm].booked_by = c.user
              /\ JoinCommit(p) => /\ vms[c.vm].exists
                                  /\ vms[c.vm].booked_by # c.user
                                  /\ c.user \notin waiting
                                  /\ Cardinality(waiting) < QueueCap]_vars

\* a Book refused on the leased resource and a Join refused on its full waitlist
FailedOpsChangeNothingWitness ==
    \E p, q \in Procs :
        /\ proc[p].op = "book" /\ proc[p].pc = "ret" /\ proc[p].res = "already_leased"
        /\ proc[q].op = "join" /\ proc[q].pc = "ret" /\ proc[q].res = "queue_full"
        /\ vms[proc[p].vm].booked_by # NoUser
        /\ Cardinality(QRows(queue, proc[q].vm)) = QueueCap

\* ---------------------------------------------------------------- C15
Min(a, b) == IF a < b THEN a ELSE b
Max(a, b) == IF a > b THEN a ELSE b

\* C15: Book(R, U, h) on a free resource, for every h, makes U the owner of R with
\* expiry = the time the handler read + min(max(h, 1), 24), appends exactly one record,
\* a 'book' record of (U, R) whose end is the new expiry, and leaves the waitlists alone
BookSetsLease ==
    [][\A p \in Procs :
          /\ (TakesUp(p, "book") /\ vms[proc'[p].vm].exists
                                 /\ vms[proc'[p].vm].booked_by = NoUser)
             => /\ proc'[p].pc = "book_commit"
                /\ proc'[p].exp = now + Min(Max(proc'[p].hours, 1), 24)
          /\ BookCommit(p)
             => /\ vms'[proc[p].vm].booked_by = proc[p].user
                /\ vms'[proc[p].vm].expires_at = proc[p].exp
                /\ \A v \in VMs \ {proc[p].vm} : vms'[v] = vms[v]
                /\ Len(bookings') = Len(bookings) + 1
                /\ SubSeq(bookings', 1, Len(bookings)) = bookings
                /\ LET r == bookings'[Len(bookings')]
                   IN  /\ r.action = "book"
                       /\ r.user_email = proc[p].user
                       /\ r.vm_id = proc[p].vm
                       /\ r.end = proc[p].exp
                /\ queue' = queue]_vars

\* a Book that asked for more than 24 hours committed: the lease runs 24 hours
BookSetsLeaseWitness ==
    /\ bookings # <<>>
    /\ LET r == bookings[Len(bookings)]
       IN  /\ r.action = "book"
           /\ r.end = r.start + MaxHours
           /\ vms[r.vm_id].booked_by = r.user_email
           /\ vms[r.vm_id].expires_at = r.end
    /\ queue = {}

\* ---------------------------------------------------------------- C16
\* C16: the lease of a resource moves only from free to leased by Book, from leased to
\* free by Cancel or Release, and from leased to leased with a new expiry by Renew, which
\* keeps the owner; a resource that is added is free; no step hands a lease from one
\* requester directly to another
LeaseStateMachine ==
    [][\A v \in VMs :
          LET old == vms[v]
              new == vms'[v]
          IN  /\ (~old.exists /\ new.exists)
                 => new.booked_by = NoUser /\ new.expires_at = NoTime
              /\ (old.exists /\ new.exists /\ old.booked_by = NoUser /\ new.booked_by # NoUser)
                 => \E p \in Procs : BookCommit(p) /\ proc[p].vm = v
              /\ (old.exists /\ new.exists /\ old.booked_by # NoUser /\ new.booked_by = NoUser)
                 => \E p \in Procs : (CancelCommit(p) \/ ReleaseCommit(p)) /\ proc[p].vm = v
              /\ (old.exists /\ new.exists /\ old.booked_by # NoUser /\ new.booked_by # NoUser)
                 => /\ new.booked_by = old.booked_by
                    /\ new.expires_at # old.expires_at
                       => \E p \in Procs : RenewCommit(p) /\ proc[p].vm = v
              /\ (old.exists /\ new.exists /\ old.booked_by = NoUser /\ new.booked_by = NoUser)
                 => new.expires_at = old.expires_at]_vars

\* a lease was taken by Book and ended by Cancel: the resource is free again
LeaseStateMachineWitness ==
    /\ Len(bookings) = 2
    /\ bookings[1].action = "book"
    /\ bookings[2].action = "cancel"
    /\ bookings[2].vm_id = bookings[1].vm_id
    /\ vms[bookings[1].vm_id].exists
    /\ vms[bookings[1].vm_id].booked_by = NoUser

\* ---------------------------------------------------------------- C17
\* the events of out that satisfy test
Events(out, test(_)) == {i \in 1..Len(out) : test(out[i])}

\* C17: a Release that popped requester q from the waitlist has emitted exactly one
\* 'resource available' event, targeted at q, and exactly one untargeted 'released'
\* event; a Release that popped nobody (the waitlist was empty) has emitted no targeted
\* event
ReleaseNotifiesPopped ==
    \A p \in Procs :
        proc[p].pc = "release_done" =>
            LET out == proc[p].out
                targeted == Events(out, LAMBDA e : e.target # NoUser)
            IN  /\ Cardinality(Events(out, LAMBDA e : e.target = NoUser /\ e.msg = "released")) = 1
                /\ \A q \in proc[p].popped :
                      /\ Cardinality(targeted) = 1
                      /\ \A i \in targeted : out[i].target = q /\ out[i].msg = "available"
                /\ proc[p].popped = {} => targeted = {}

\* ---------------------------------------------------------------- C18
\* C18: whatever Book or Cancel does meanwhile, a Delete that removes a leased resource
\* has appended a 'deleted' record of the owner who holds the lease at the removal, and
\* a Delete that removes a free resource has appended none
DeletedRecordNamesOwner ==
    [][\A p \in Procs :
          (DeleteCommit(p) /\ vms[proc[p].vm].exists) =>
              LET v == proc[p].vm
              IN  IF vms[v].booked_by # NoUser
                  THEN /\ proc[p].lease = vms[v].lease
                       /\ \E i \in 1..Len(bookings) :
                             /\ bookings[i].action = "deleted"
                             /\ bookings[i].user_email = vms[v].booked_by
                             /\ bookings[i].vm_id = v
                  ELSE proc[p].lease = 0]_vars

\* ---------------------------------------------------------------- C19
\* a cancel or release record that is older than an hour at hour t
StaleEnd(r, t) == r.action \in {"cancel", "release"} /\ r.start < t - 1

\* C19: after a compaction pass at hour t the table holds no cancel or release record
\* older than an hour, and no 'book' record of the same requester and resource that
\* started no later than such a record
NoStaleLeft ==
    [][\A p \in Procs :
          PurgeWrite(p) =>
              LET t == proc[p].t
              IN  /\ \A j \in 1..Len(bookings') : ~StaleEnd(bookings'[j], t)
                  /\ \A i \in 1..Len(bookings), j \in 1..Len(bookings') :
                        ~(/\ StaleEnd(bookings[i], t)
                          /\ bookings'[j].action = "book"
                          /\ bookings'[j].user_email = bookings[i].user_email
                          /\ bookings'[j].vm_id = bookings[i].vm_id
                          /\ StartNotAfter(bookings'[j], bookings[i]))]_vars

\* a pass has removed a cancel older than an hour together with the 'book' record before
\* it, whose end is still in the future
NoStaleLeftWitness ==
    \E p \in Procs :
        /\ proc[p].pc = "purge_log"
        /\ \E i, k \in 1..Len(proc[p].rows) :
              LET b == proc[p].rows[i]
                  c == proc[p].rows[k]
              IN  /\ b.action = "book" /\ b.end > now
                  /\ StaleEnd(c, proc[p].t)
                  /\ c.user_email = b.user_email /\ c.vm_id = b.vm_id
                  /\ i < k
                  /\ ~HasRow(bookings, b)
                  /\ ~HasRow(bookings, c)

\* ---------------------------------------------------------------- C20
\* C20: a compaction pass at hour t keeps exactly the records that are not stale: a
\* record of the table survives if and only if the retention policy keeps it, and every
\* survivor carries the id, requester, resource, start, end and action it had
ExactRetention ==
    [][\A p \in Procs :
          PurgeWrite(p) =>
              /\ \A i \in 1..Len(bookings) :
                    Retained(bookings[i], bookings, proc[p].t) <=> HasRow(bookings', bookings[i])
              /\ \A j \in 1..Len(bookings') : HasRow(bookings, bookings'[j])]_vars

\* ---------------------------------------------------------------- C21
\* kind, resource and date of the pending date jobs
Timers(js) == {<<j.kind, j.vm_id, j.run_date>> : j \in js}

\* the leases as worker p read them for its re-derivation are the leases of the store
SameLeases(p) ==
    \A v \in VMs : /\ proc[p].sj[v].exists = vms[v].exists
                   /\ proc[p].sj[v].booked_by = vms[v].booked_by
                   /\ proc[p].sj[v].expires_at = vms[v].expires_at

\* C21: when a re-derivation completes and no lease changed since it read the store at
\* hour t, the pending timers are exactly one release timer at E for every leased
\* resource with expiry E > t and one notify timer at E - 1 for every leased resource
\* with E - 1 > t, at most one of each kind per resource: a function of the store and
\* the hour, so that a second re-derivation on the same store and hour gives the same set
TimersRederived ==
    [][\A p \in Procs :
          (SchedAdd(p) /\ SameLeases(p)) =>
              /\ Timers(jobs') =
                    {<<"release", v, vms[v].expires_at>> :
                        v \in {x \in VMs : /\ vms[x].exists /\ vms[x].booked_by # NoUser
                                           /\ vms[x].expires_at \notin {NoTime, BadTime}
                                           /\ vms[x].expires_at > proc[p].t}}
                    \cup
                    {<<"notify", v, vms[v].expires_at - 1>> :
                        v \in {x \in VMs : /\ vms[x].exists /\ vms[x].booked_by # NoUser
                                           /\ vms[x].expires_at \notin {NoTime, BadTime}
                                           /\ vms[x].expires_at - 1 > proc[p].t}}
              /\ \A j1, j2 \in jobs' : (j1.kind = j2.kind /\ j1.vm_id = j2.vm_id) => j1 = j2]_vars

\* a re-derivation at hour 1 of a lease that expires at hour 2 has completed: the release
\* timer is pending and no notify timer is
TimersRederivedWitness ==
    \E p \in Procs, v \in VMs :
        /\ proc[p].pc = "ret" /\ proc[p].op \in {"book", "renew"} /\ proc[p].vm = v
        /\ now = 1
        /\ vms[v].booked_by # NoUser /\ vms[v].expires_at = 2
        /\ Timers(jobs) = {<<"release", v, 2>>}

\* ---------------------------------------------------------------- C22
\* C22: the pending timers are added and removed only under the scheduling lock: a step
\* of a re-derivation, of Cancel, of Release or of Delete that changes the set of
\* timers is taken by the worker that holds db_lock
TimersChangeUnderLock ==
    [][\A p \in Procs :
          (/\ jobs' # jobs
           /\ \/ SchedBegin(p) \/ Connect(p) \/ SchedAdd(p)
              \/ CancelUnschedule(p) \/ ReleaseUnschedule(p) \/ DeleteUnschedule(p))
          => (db_lock = p \/ db_lock' = p)]_vars

\* ---------------------------------------------------------------- C23
\* C23: the notification that fires one hour before a lease ends is addressed to the
\* requester who is first in the waitlist of the resource at that moment, and is the
\* untargeted broadcast only if the waitlist is empty at that moment
NotifyNamesFirst ==
    [][FireNotify =>
          \A j \in jobs \ jobs' : j.target = FirstOf(QueueEmails(queue, j.vm_id))]_vars

\* ---------------------------------------------------------------- C24
\* C24: a Join by the owner of the resource, who is not waiting for it, is refused as
\* self-ownership whatever the length of the waitlist, a full waitlist included
OwnerJoinRefused ==
    [][\A p \in Procs :
          (/\ TakesUp(p, "join")
           /\ vms[proc'[p].vm].exists
           /\ vms[proc'[p].vm].booked_by = proc'[p].user
           /\ \A r \in QRows(queue, proc'[p].vm) : r.email # proc'[p].user)
          => /\ proc'[p].pc = "ret"
             /\ proc'[p].res = "self_owner"]_vars

\* ---------------------------------------------------------------- C25
\* C25: a Release of a resource leased to U appends exactly one record, a 'release'
\* record of U and the resource with no end, whoever U is; a Release of a free resource
\* appends none
ReleaseRecordsOwner ==
    [][\A p \in Procs :
          ReleaseCommit(p) =>
              LET v == proc[p].vm
                  owner == vms[v].booked_by
              IN  IF owner # NoUser
                  THEN /\ Len(bookings') = Len(bookings) + 1
                       /\ SubSeq(bookings', 1, Len(bookings)) = bookings
                       /\ LET r == bookings'[Len(bookings')]
                          IN  /\ r.action = "release"
                              /\ r.user_email = owner
                              /\ r.vm_id = v
                              /\ r.end = NoTime
                  ELSE bookings' = bookings]_vars

\* ---------------------------------------------------------------- C26
\* two resources: resource 2 was booked at hour 0 for one hour by a requester and the
\* schedule re-derived, resource 1 is free; a requester waits for resource 1 and the
\* other requester may wait for resource 2
TwoInit ==
    /\ now = 0
    /\ \E o \in Users :
          /\ vms = [v \in VMs |-> IF v = 2
                                  THEN [exists |-> TRUE, booked_by |-> o,
                                        expires_at |-> MinHours, lease |-> 1]
                                  ELSE FreeRow]
          /\ bookings = <<[id |-> 1, user_email |-> o, vm_id |-> 2, start |-> 0,
                           end |-> MinHours, action |-> "book"]>>
          /\ \E a \in Users, w \in SUBSET (Users \ {o}) :
                queue = {[id |-> 1, vm_id |-> 1, email |-> a, position |-> 1]}
                        \cup {[id |-> 2, vm_id |-> 2, email |-> b, position |-> 1] : b \in w}
    /\ bseq = 1
    /\ jobs = {[kind |-> "release", vm_id |-> 2, run_date |-> MinHours,
                target |-> NoUser, lease |-> 1]}
    /\ vmlock = [v \in VMs |-> NoProc]
    /\ qlock = [v \in VMs |-> NoProc]
    /\ users = {}
    /\ db_lock = NoProc
    /\ proc = [p \in Procs |-> Idle]

\* requests that name either resource
TwoNext ==
    \E p \in Procs :
        \/ BookOn(p, HoursIn, VMs) \/ BookCommit(p)
        \/ CancelOn(p, VMs) \/ CancelCommit(p) \/ CancelUnschedule(p)
        \/ SchedBegin(p) \/ SchedAdd(p)
        \/ JoinOn(p, VMs) \/ JoinCommit(p)
        \/ Return(p)

TwoSpec == TwoInit /\ [][TwoNext]_vars

\* C26: a Cancel by the owner clears the owner and the expiry of the resource and
\* appends exactly one record, a 'cancel' record of the owner and the resource with no
\* end; the waitlists, that of the resource included, and every other resource stay as
\* they are: nobody is popped
CancelFrame ==
    [][\A p \in Procs :
          /\ (TakesUp(p, "cancel") /\ vms[proc'[p].vm].exists
                                   /\ vms[proc'[p].vm].booked_by = proc'[p].user)
             => proc'[p].pc = "cancel_commit"
          /\ CancelCommit(p)
             => LET v == proc[p].vm
                IN  /\ vms[v].booked_by = proc[p].user
                    /\ vms'[v].exists
                    /\ vms'[v].booked_by = NoUser
                    /\ vms'[v].expires_at = NoTime
                    /\ \A w \in VMs \ {v} : vms'[w] = vms[w]
                    /\ queue' = queue
                    /\ Len(bookings') = Len(bookings) + 1
                    /\ SubSeq(bookings', 1, Len(bookings)) = bookings
                    /\ LET r == bookings'[Len(bookings')]
                       IN  /\ r.action = "cancel"
                           /\ r.user_email = proc[p].user
                           /\ r.vm_id = v
                           /\ r.end = NoTime]_vars

\* resource 2 was cancelled by its owner while a requester waited for it and another
\* resource with a waitlist of its own exists
CancelFrameWitness ==
    /\ Len(bookings) = 2
    /\ bookings[2].action = "cancel" /\ bookings[2].vm_id = 2
    /\ vms[2].booked_by = NoUser
    /\ QRows(queue, 2) # {}
    /\ vms[1].exists /\ QRows(queue, 1) # {}

\* ---------------------------------------------------------------- C27
\* the process starts on a store that holds two leases booked at hour 0 for one hour,
\* each resource with nobody or one requester waiting; no date job
FailInit ==
    /\ now = 0
    /\ \E o1, o2 \in Users :
          /\ vms = [v \in VMs |-> [exists |-> TRUE, booked_by |-> IF v = 1 THEN o1 ELSE o2,
                                   expires_at |-> MinHours, lease |-> v]]
          /\ bookings = <<[id |-> 1, user_email |-> o1, vm_id |-> 1, start |-> 0,
                           end |-> MinHours, action |-> "book"],
                          [id |-> 2, user_email |-> o2, vm_id |-> 2, start |-> 0,
                           end |-> MinHours, action |-> "book"]>>
          /\ \E w \in SUBSET VMs :
                queue = {[id |-> v, vm_id |-> v, email |-> CHOOSE u \in Users : u # vms[v].booked_by,
                          position |-> 1] : v \in w}
    /\ bseq = 2
    /\ jobs = {}
    /\ vmlock = [v \in VMs |-> NoProc]
    /\ qlock = [v \in VMs |-> NoProc]
    /\ users = {}
    /\ db_lock = NoProc
    /\ proc = [p \in Procs |-> Idle]

\* the sweep, whose calls of release_vm may fail, and the clock
FailNext ==
    \/ \E p \in Procs :
          \/ SweepScan(p) \/ ReleaseLock(p) \/ ReleaseCommit(p)
          \/ ReleaseUnschedule(p) \/ ReleaseReturn(p)
          \/ ReleaseStoreError(p) \/ ReleaseEmitError(p) \/ ReleaseCaught(p)
    \/ Tick

\* the pass that has started goes on whenever it can (WF); an error may or may not happen
FailFairSpec ==
    /\ FailInit
    /\ [][FailNext]_vars
    /\ \A p \in Procs :
          /\ WF_vars(ReleaseLock(p))
          /\ WF_vars(ReleaseCommit(p))
          /\ WF_vars(ReleaseUnschedule(p))
          /\ WF_vars(ReleaseReturn(p))
          /\ WF_vars(ReleaseCaught(p))

\* resource v is in the list of expired resources that the pass of worker p still has
\* to release
Listed(p, v) ==
    /\ proc[p].op = "sweep"
    /\ \E i \in 1..Len(proc[p].expired) : proc[p].expired[i] = v

\* C27: whatever release fails in a pass of the sweep, every resource the pass found
\* expired is released in that pass unless its own release fails, and the pass ends, so
\* that the next passes run
SweepOutlastsFailure ==
    /\ \A p \in Procs, v \in VMs :
          Listed(p, v) ~> (\/ vms[v].booked_by = NoUser
                           \/ \E q \in Procs : proc[q].pc = "release_failed" /\ proc[q].vm = v)
    /\ \A p \in Procs : (proc[p].pc = "release_failed") ~> (proc[p].pc = "idle")

\* the release of resource 1 failed with the lease in place, and the same pass has
\* released resource 2
SweepOutlastsFailureWitness ==
    \E p \in Procs :
        /\ proc[p].op = "sweep"
        /\ proc[p].pc = "release_done"
        /\ proc[p].vm = 2
        /\ proc[p].expired = <<2>>
        /\ vms[2].booked_by = NoUser
        /\ vms[1].booked_by # NoUser

\* ---------------------------------------------------------------- C28
\* the lease operations, any of whose emits may fail
EmitNext ==
    \/ LeaseNext
    \/ \E p \in Procs : EmitError(p)

EmitSpec == AddedInit /\ [][EmitNext]_vars

\* C28: once the transaction of Book, Renew or Cancel has committed, the handler goes on
\* to the re-derivation of the timers and answers ok, whether or not the emit of the
\* notification fails, and the committed lease stays as it is
EmitFailureSwallowed ==
    [][\A p \in Procs :
          (proc[p].pc = "sched_begin" /\ proc'[p].pc # "sched_begin")
              => /\ proc'[p].pc = "sched_add"
                 /\ vms' = vms
                 /\ bookings' = bookings]_vars

\* ---------------------------------------------------------------- C29
\* the sweep under its retry policy: the scan may raise in any attempt
RetryNext ==
    \/ \E p \in Procs :
          \/ SweepTry(p) \/ ScanOk(p) \/ ScanPendingRollback(p) \/ ScanTransient(p)
          \/ ReleaseLock(p) \/ ReleaseCommit(p) \/ ReleaseUnschedule(p) \/ ReleaseReturn(p)
          \/ Return(p)
    \/ Tick

\* the call of the store returns or raises (WF); which of the two is not constrained
RetryFairSpec ==
    /\ SweepInit
    /\ [][RetryNext]_vars
    /\ \A p \in Procs : WF_vars(ScanCall(p))

\* C29: the retry policy ends: while the wrapped scan runs it is in one of at most
\* MaxRetries attempts and _safe_exec has called its action at most once before the call
\* at hand; an error reaches the caller only from the last attempt, a successful call
\* gives the caller the scan's result and no error, and the scan does not go on for ever
RetryTerminates ==
    /\ [](\A p \in Procs :
            /\ proc[p].pc = "scan" => proc[p].attempt + 1 <= MaxRetries /\ proc[p].calls + 1 <= 2
            /\ proc[p].res = "error" => proc[p].attempt = MaxRetries)
    /\ [][\A p \in Procs :
            (proc[p].pc = "scan" /\ proc'[p].pc # "scan" /\ proc'[p].res # "error")
                => /\ proc'[p].expired = Expired(now)
                   /\ proc'[p].pc \in {"idle", "release_lock"}]_vars
    /\ \A p \in Procs : (proc[p].pc = "scan") ~> (proc[p].pc # "scan")

\* every attempt failed and the last error has reached the caller
RetryTerminatesWitness ==
    \E p \in Procs :
        /\ proc[p].op = "sweep"
        /\ proc[p].pc = "ret"
        /\ proc[p].res = "error"
        /\ proc[p].attempt = MaxRetries

\* ---------------------------------------------------------------- C30
\* the process starts on a store in which the expiry of the lease of resource 1 does not
\* parse and the lease of resource 2 ends at hour 1; no date job
BadInit ==
    /\ now = 0
    /\ \E o1, o2 \in Users :
          /\ vms = [v \in VMs |-> [exists |-> TRUE, booked_by |-> IF v = 1 THEN o1 ELSE o2,
                                   expires_at |-> IF v = 1 THEN BadTime ELSE MinHours,
                                   lease |-> v]]
          /\ bookings = <<[id |-> 1, user_email |-> o1, vm_id |-> 1, start |-> 0,
                           end |-> BadTime, action |-> "book"],
                          [id |-> 2, user_email |-> o2, vm_id |-> 2, start |-> 0,
                           end |-> MinHours, action |-> "book"]>>
    /\ bseq = 2
    /\ queue \in Waitlists(1)
    /\ jobs = {}
    /\ vmlock = [v \in VMs |-> NoProc]
    /\ qlock = [v \in VMs |-> NoProc]
    /\ users = {}
    /\ db_lock = NoProc
    /\ proc = [p \in Procs |-> Idle]

\* the sweep runs as in SweepFairSpec
BadFairSpec ==
    /\ BadInit
    /\ [][SweepNext]_vars
    /\ SF_vars(\E p \in Procs : SweepScan(p))
    /\ \A p \in Procs :
          /\ WF_vars(ReleaseLock(p)) /\ WF_vars(ReleaseCommit(p))
          /\ WF_vars(ReleaseUnschedule(p)) /\ WF_vars(ReleaseReturn(p)) /\ WF_vars(Return(p))

\* C30: a pass of the sweep that starts lists every leased resource whose stored expiry
\* does not parse among the expired resources it releases
UnparsableSwept ==
    [][\A p \in Procs :
          (proc[p].pc = "idle" /\ proc'[p].op = "sweep")
              => \A v \in VMs :
                    (/\ vms[v].exists
                     /\ vms[v].booked_by # NoUser
                     /\ vms[v].expires_at = BadTime)
                        => \E i \in 1..Len(proc'[p].expired) : proc'[p].expired[i] = v]_vars

\* ---------------------------------------------------------------- C31
\* C31: the owner of a resource is never an entry of the waitlist of that resource
OwnerNotWaiting ==
    \A r \in queue :
        vms[r.vm_id].booked_by = NoUser \/ vms[r.vm_id].booked_by # r.email

\* C31, amended: join_queue never inserts an entry for the requester who owns the
\* resource when the entry is inserted; an owner is in the waitlist of the resource only
\* with an entry that was there when the owner booked
JoinNeverAddsOwner ==
    [][\A p \in Procs :
          JoinCommit(p)
              => /\ vms[proc[p].vm].booked_by # proc[p].user
                 /\ vms'[proc[p].vm].booked_by # proc[p].user
                 /\ \A r \in queue' :
                       (\A q \in queue : q.id # r.id) => r.email = proc[p].user]_vars

\* a requester has joined the waitlist of a resource that another requester owns
JoinNeverAddsOwnerWitness ==
    \E p \in Procs :
        /\ proc[p].op = "join"
        /\ proc[p].pc = "ret"
        /\ proc[p].res = "ok"
        /\ vms[proc[p].vm].booked_by \notin {NoUser, proc[p].user}
        /\ \E r \in queue : r.vm_id = proc[p].vm /\ r.email = proc[p].user

\* ---------------------------------------------------------------- C32
\* the process runs on a store that holds a lease of resource 1 and a waitlist, with the
\* release job that schedule_jobs derived for the lease
DoubleInit ==
    /\ now = 0
    /\ \E o \in Users, e \in {MinHours, MinHours + 1} :
          /\ vms = [v \in VMs |-> IF v = 1
                                  THEN [exists |-> TRUE, booked_by |-> o,
                                        expires_at |-> e, lease |-> 1]
                                  ELSE NoRow]
          /\ bookings = <<[id |-> 1, user_email |-> o, vm_id |-> 1, start |-> 0,
                           end |-> e, action |-> "book"]>>
          /\ jobs = {[kind |-> "release", vm_id |-> 1, run_date |-> e,
                      target |-> NoUser, lease |-> 1]}
    /\ bseq = 1
    /\ queue \in Waitlists(1)
    /\ vmlock = [v \in VMs |-> NoProc]
    /\ qlock = [v \in VMs |-> NoProc]
    /\ users = {}
    /\ db_lock = NoProc
    /\ proc = [p \in Procs |-> Idle]

\* the release job and the sweep, each on a thread of the scheduler
DoubleNext ==
    \/ SweepNext
    \/ \E p \in Procs : FireRelease(p)

DoubleSpec == DoubleInit /\ [][DoubleNext]_vars

\* C32: a Release that finds the resource already free leaves the waitlist unchanged and
\* will emit no event targeted at a requester
SecondReleasePopsNobody ==
    [][\A p \in Procs :
          (ReleaseCommit(p) /\ vms[proc[p].vm].booked_by = NoUser)
              => /\ queue' = queue
                 /\ proc'[p].popped = {}
                 /\ \A i \in 1..Len(ReleaseEvents(proc[p].vm, proc[p].first)) :
                       ReleaseEvents(proc[p].vm, proc[p].first)[i].target = NoUser]_vars

\* ---------------------------------------------------------------- C33
\* C33: a requester appears at most once in the waitlist of a resource
OnceInWaitlist ==
    \A r1, r2 \in queue :
        (r1.vm_id = r2.vm_id /\ r1.email = r2.email) => r1 = r2

\* two workers have answered a Join of the same requester for the same resource, one with
\* a new entry and one with already_in_queue
OnceInWaitlistWitness ==
    \E p, q \in Procs :
        /\ proc[p].op = "join" /\ proc[p].pc = "ret" /\ proc[p].res = "ok"
        /\ proc[q].op = "join" /\ proc[q].pc = "ret" /\ proc[q].res = "already_in_queue"
        /\ proc[p].user = proc[q].user
        /\ proc[p].vm = proc[q].vm
        /\ \E r \in queue : r.vm_id = proc[p].vm /\ r.email = proc[p].user

\* ---------------------------------------------------------------- C34
\* C34: every waitlist entry is of a resource that exists, whatever Join runs next to a
\* Delete; and a Join for a resource that does not exist is answered not_found and adds
\* no entry
WaitlistOfExisting ==
    /\ [](\A r \in queue : vms[r.vm_id].exists)
    /\ [][\A p \in Procs :
            (proc[p].pc = "idle" /\ proc'[p].op = "join" /\ ~vms[proc'[p].vm].exists)
                => /\ proc'[p].pc = "ret"
                   /\ proc'[p].res = "not_found"
                   /\ queue' = queue]_vars

\* a Join has inserted its entry and a Delete of the same resource, in flight at the
\* same time, has then removed the resource with its whole waitlist
WaitlistOfExistingWitness ==
    \E p, q \in Procs :
        /\ proc[p].op = "delete" /\ proc[p].pc = "ret" /\ proc[p].res = "ok"
        /\ proc[q].op = "join" /\ proc[q].pc = "ret" /\ proc[q].res = "ok"
        /\ proc[p].vm = proc[q].vm
        /\ ~vms[proc[p].vm].exists
        /\ queue = {}

====
